---- MODULE Spec2Model ----
(***************************************************************************)
(* Request lifecycle of the Kokoro TTS / Faster-Whisper STT API.           *)
(*                                                                         *)
(*   Backend/main.py            the handlers (text_to_speech,              *)
(*                              speech_to_text_upload, ..._record)         *)
(*   Backend/tts/tts_service.py generate_audio, get_pipeline_and_voice     *)
(*   Backend/stt/stt_service.py transcribe_audio                           *)
(*   Backend/config.py          the limits                                 *)
(*                                                                         *)
(* The two engines (KPipeline, WhisperModel), the random source uuid4 and  *)
(* the filesystem calls are the environment: each of their outcomes the    *)
(* code distinguishes (a value, an exception) is a nondeterministic        *)
(* choice.                                                                 *)
(*                                                                         *)
(* Scheduling.  text_to_speech is a plain `def`: the server runs it on a   *)
(* worker thread, so its steps interleave with everything else.  The two   *)
(* STT handlers are `async def` and run on the single event loop of the    *)
(* process; their only suspension point is `await file.read()`.  The       *)
(* variable `loop` is the coroutine that currently runs on the event loop. *)
(***************************************************************************)
EXTENDS Integers, Sequences, FiniteSets, TLC

\* ------------------------------------------------------------------------
\* Bounds of the model
\* ------------------------------------------------------------------------
MaxReqs == 2          \* requests handled in one behaviour
MaxId == 2            \* values str(uuid.uuid4())[:8] can take
MaxChunks == 2        \* chunks a Kokoro generator yields at most
MaxSegments == 2      \* segments a Whisper generator yields at most

Reqs == 1..MaxReqs
Ids == 1..MaxId

\* ------------------------------------------------------------------------
\* config.py
\* ------------------------------------------------------------------------
DEFAULT_VOICE_FR == "ff_siwis"
DEFAULT_VOICE_EN == "af_heart"
MAX_TEXT_LENGTH == 2000
TTS_OUTPUT_DIR == "tts/outputs"
AUDIO_FORMAT == "wav"
STT_MAX_FILE_SIZE_MB == 25
STT_UPLOAD_DIR == "stt/uploads"

\* ------------------------------------------------------------------------
\* Python values
\* ------------------------------------------------------------------------
\* None and a present value, for the slots of a dict that may hold None.
None == <<>>
Some(v) == <<v>>

\* A text of a TTS request: `lead` whitespace characters, then `body`
\* characters that begin and end with a non-whitespace character, then
\* `trail` whitespace characters.  A blank text has body = 0 and trail = 0.
PyLen(t) == t.lead + t.body + t.trail
PyStrip(t) == [lead |-> 0, body |-> t.body, trail |-> 0]
PyTruthy(t) == PyLen(t) > 0

\* A text of a Whisper segment: a sequence of characters.
IsSpace(c) == c = " "

RECURSIVE LStrip(_)
LStrip(s) == IF s = <<>> THEN <<>>
             ELSE IF IsSpace(Head(s)) THEN LStrip(Tail(s)) ELSE s

RECURSIVE RStrip(_)
RStrip(s) == IF s = <<>> THEN <<>>
             ELSE IF IsSpace(s[Len(s)]) THEN RStrip(SubSeq(s, 1, Len(s) - 1))
             ELSE s

StrStrip(s) == RStrip(LStrip(s))

\* os.path.splitext(name): a client filename is kept as its root and its
\* extension ("" when the name has none, else with the leading dot).
splitext(name) == <<name.root, name.ext>>

\* os.path.join(directory, filename)
path_join(dir, filename) == <<dir, filename>>

\* The comparison on the integer quotient, len(contents) // (1024 * 1024).
FloorDivGreater(n, d, limit) == n \div d > limit

\* len(contents) / (1024 * 1024) > limit, on the exact quotient: the true
\* division of an int below 2^53 by a power of two is exact in a float.
BytesPerMB == 1024 * 1024

TrueDivGreater(n, d, limit) ==
    \/ n \div d > limit
    \/ (n \div d = limit /\ n % d > 0)

\* ------------------------------------------------------------------------
\* Inputs the clients and the environment can produce
\* ------------------------------------------------------------------------
Text(l, b, t) == [lead |-> l, body |-> b, trail |-> t]

Texts == { Text(0, 0, 0),                       \* ""
           Text(MAX_TEXT_LENGTH + 1, 0, 0),     \* only spaces, over the limit
           Text(0, 1, 0),                       \* "a"
           Text(0, MAX_TEXT_LENGTH, 0),         \* exactly the limit
           Text(1, MAX_TEXT_LENGTH, 0),         \* the limit after trimming only
           Text(0, MAX_TEXT_LENGTH + 1, 0) }    \* one over the limit

Languages == {"fr", "en", "de"}
Voices == {"", "af_bella"}

TTSRequest == [text : Texts, language : Languages, voice : Voices]

\* The bodies of the requests that are handled concurrently: one text of
\* each validation class.
ConcurrentTTSRequest ==
    { [text |-> Text(0, 1, 0), language |-> "fr", voice |-> ""],
      [text |-> Text(0, 0, 0), language |-> "fr", voice |-> ""] }

ContentTypes == {"audio/wav", "audio/webm", "text/plain"}
Filenames == { [root |-> "clip", ext |-> ".mp3"], [root |-> "blob", ext |-> ""] }
SttLanguages == {"auto", "fr", "en"}
Sizes == { 1,
           STT_MAX_FILE_SIZE_MB * BytesPerMB,
           STT_MAX_FILE_SIZE_MB * BytesPerMB + 1 }

\* What the bytes of an upload sound like to Whisper.
Audios == {"silence", "speech"}

UploadFile == [content_type : ContentTypes, filename : Filenames,
               size : Sizes, audio : Audios]
SttRequest == [file : UploadFile, language : SttLanguages]

\* The uploads of the requests that are handled concurrently.
ConcurrentSttRequest ==
    [file : [content_type : {"audio/webm"},
             filename : {[root |-> "blob", ext |-> ""]},
             size : {1}, audio : Audios],
     language : {"fr"}]

\* The k-th audio chunk of a Kokoro generator: an array of k samples that
\* is told from every other chunk of the sequence by its samples.
Chunk(k) == [i \in 1..k |-> k]

\* The text of the k-th segment Whisper yields for an audio: blank for
\* silence, else speech that is told from the speech of every other segment
\* of the sequence.
Letter(k) == IF k = 1 THEN "a" ELSE IF k = 2 THEN "b" ELSE "c"
SegmentText(audio, k) ==
    IF audio = "silence" THEN <<" ">> ELSE <<" ", Letter(k)>>

\* str(e) of an exception of an engine or of the filesystem.
EngineError == "engine error"
WriteError == "write error"

\* round(time.time() - start_time, 2)
Durations == {0}

\* ------------------------------------------------------------------------
\* State
\* ------------------------------------------------------------------------
VARIABLES
    pc,             \* Reqs -> position of the request in its handler
    kind,           \* Reqs -> "none", "tts", "upload" or "record"
    request,        \* Reqs -> the TTSRequest, or the file and the language
    pipeline,       \* Reqs -> the engine handle the adapter is using
    selected_voice, \* Reqs -> the voice of the synthesis (generate_audio)
    audio_chunks,   \* Reqs -> the chunks drained so far (generate_audio)
    segments_list,  \* Reqs -> the segments drained so far (transcribe_audio)
    full_text,      \* Reqs -> the text assembled so far (transcribe_audio)
    language_param, \* Reqs -> the language handed to transcribe_audio
    upload_filepath,\* Reqs -> the temporary file of an STT request
    result,         \* Reqs -> the dict returned by the adapter
    response,       \* Reqs -> the HTTP response of the request
    calls,          \* Reqs -> how often the request entered its adapter
    segments,       \* Reqs -> the generator of stt_model.transcribe
    info,           \* Reqs -> the detection info of stt_model.transcribe
    warned,         \* Reqs -> logger.warning of a failed os.remove
    outputs,        \* the files of TTS_OUTPUT_DIR: filename -> samples
    uploads,        \* the files of STT_UPLOAD_DIR: filename -> bytes
    loop            \* the coroutine running on the event loop, 0 if none

vars == << pc, kind, request, pipeline, selected_voice, audio_chunks,
           segments_list, full_text, language_param, upload_filepath,
           segments, info, result, response, calls, warned, outputs, uploads, loop >>

ttsLocals == << pipeline, selected_voice, audio_chunks >>
sttLocals == << segments_list, full_text, language_param, upload_filepath,
                segments, info, warned >>

\* The empty directory: a function with no file.
NoFiles == [f \in {} |-> 0]

\* The directory `dir` after `open(name, "wb").write(data)`: the file is
\* created, or truncated and rewritten when the name exists.
WriteFile(dir, name, data) ==
    [f \in (DOMAIN dir) \cup {name} |-> IF f = name THEN data ELSE dir[f]]

\* The directory `dir` after a successful os.remove(name).
RemoveFile(dir, name) == [f \in (DOMAIN dir) \ {name} |-> dir[f]]

Init ==
    /\ pc = [r \in Reqs |-> "idle"]
    /\ kind = [r \in Reqs |-> "none"]
    /\ request = [r \in Reqs |-> None]
    /\ pipeline = [r \in Reqs |-> "none"]
    /\ selected_voice = [r \in Reqs |-> ""]
    /\ audio_chunks = [r \in Reqs |-> <<>>]
    /\ segments_list = [r \in Reqs |-> <<>>]
    /\ full_text = [r \in Reqs |-> <<>>]
    /\ language_param = [r \in Reqs |-> None]
    /\ upload_filepath = [r \in Reqs |-> None]
    /\ result = [r \in Reqs |-> None]
    /\ response = [r \in Reqs |-> None]
    /\ calls = [r \in Reqs |-> 0]
    /\ segments = [r \in Reqs |-> None]
    /\ info = [r \in Reqs |-> None]
    /\ warned = [r \in Reqs |-> FALSE]
    /\ outputs = NoFiles
    /\ uploads = NoFiles
    /\ loop = 0

\* str(uuid.uuid4())[:8]: a prefix some file of the same kind already got,
\* or a new one.  The prefixes are only ever compared for equality, so the
\* new one is taken to be the smallest that is not in `used`.
uuid4_prefixes(used) ==
    { i \in Ids : i \in used \/ (\A j \in Ids : j < i => j \in used) }

\* The prefixes of the files named `prefix...` that the requests wrote.
UsedAudioIds == { f.id : f \in DOMAIN outputs }
UsedUploadIds(prefix) ==
    { upload_filepath[q][1][2].id :
        q \in { q \in Reqs : /\ upload_filepath[q] # None
                              /\ upload_filepath[q][1][2].prefix = prefix } }

\* raise HTTPException(status_code, detail)
HTTPException(status_code, detail) ==
    [status_code |-> status_code, detail |-> detail]

\* The request r ends with the response resp.
Respond(r, resp) ==
    /\ response' = [response EXCEPT ![r] = Some(resp)]
    /\ pc' = [pc EXCEPT ![r] = "done"]

\* ------------------------------------------------------------------------
\* POST /tts  (main.py, text_to_speech) and tts_service.py
\* ------------------------------------------------------------------------
\* A client posts a body that parses as a TTSRequest.
\* The requests are numbered in the order of their arrival.
Arrives(r) == pc[r] = "idle" /\ \A q \in Reqs : q < r => pc[q] # "idle"

ReceiveTts(r, bodies) ==
    /\ \E body \in bodies :
          request' = [request EXCEPT ![r] = body]
    /\ kind' = [kind EXCEPT ![r] = "tts"]
    /\ pc' = [pc EXCEPT ![r] = "received"]
    /\ UNCHANGED << ttsLocals, sttLocals, result, response, calls,
                    outputs, uploads, loop >>

receive_tts(r) ==
    /\ Arrives(r)
    /\ ReceiveTts(r, ConcurrentTTSRequest)

\* text_to_speech_rejection with `>=` in its second rule.
text_to_speech_rejection_at_limit(req) ==
    IF ~ PyTruthy(PyStrip(req.text))
    THEN Some([msg |-> "Le texte ne peut pas etre vide"])
    ELSE IF PyLen(req.text) >= MAX_TEXT_LENGTH
    THEN Some([msg |-> "Le texte depasse la limite",
               limit |-> MAX_TEXT_LENGTH,
               received |-> PyLen(req.text)])
    ELSE IF req.language \notin {"fr", "en"}
    THEN Some([msg |-> "Langue non supportee",
               language |-> req.language])
    ELSE None

\* text_to_speech_rejection reporting the length of the trimmed text.
text_to_speech_rejection_trimmed_length(req) ==
    IF ~ PyTruthy(PyStrip(req.text))
    THEN Some([msg |-> "Le texte ne peut pas etre vide"])
    ELSE IF PyLen(req.text) > MAX_TEXT_LENGTH
    THEN Some([msg |-> "Le texte depasse la limite",
               limit |-> MAX_TEXT_LENGTH,
               received |-> PyLen(PyStrip(req.text))])
    ELSE IF req.language \notin {"fr", "en"}
    THEN Some([msg |-> "Langue non supportee",
               language |-> req.language])
    ELSE None

\* text_to_speech_rejection without its third rule.
text_to_speech_rejection_any_language(req) ==
    IF ~ PyTruthy(PyStrip(req.text))
    THEN Some([msg |-> "Le texte ne peut pas etre vide"])
    ELSE IF PyLen(req.text) > MAX_TEXT_LENGTH
    THEN Some([msg |-> "Le texte depasse la limite",
               limit |-> MAX_TEXT_LENGTH,
               received |-> PyLen(req.text)])
    ELSE None

\* The three validation rules, in the order of the code: the detail of the
\* first rule that refuses the request, None if all three accept it.
text_to_speech_rejection(req) ==
    IF ~ PyTruthy(PyStrip(req.text))
    THEN Some([msg |-> "Le texte ne peut pas etre vide"])
    ELSE IF PyLen(req.text) > MAX_TEXT_LENGTH
    THEN Some([msg |-> "Le texte depasse la limite",
               limit |-> MAX_TEXT_LENGTH,
               received |-> PyLen(req.text)])
    ELSE IF req.language \notin {"fr", "en"}
    THEN Some([msg |-> "Langue non supportee",
               language |-> req.language])
    ELSE None

text_to_speech_validate(r) ==
    /\ pc[r] = "received"
    /\ kind[r] = "tts"
    /\ LET rejection == text_to_speech_rejection(request[r])
       IN  IF rejection # None
           THEN Respond(r, HTTPException(400, rejection[1]))
           ELSE /\ pc' = [pc EXCEPT ![r] = "validated"]
                /\ UNCHANGED response
    /\ UNCHANGED << kind, request, ttsLocals, sttLocals, result, calls,
                    outputs, uploads, loop >>

\* get_pipeline_and_voice with the default voice of French for both
\* languages.
get_pipeline_and_voice_one_default(language, voice) ==
    IF language = "fr"
    THEN << "pipeline_fr", IF voice # "" THEN voice ELSE DEFAULT_VOICE_FR >>
    ELSE << "pipeline_en", IF voice # "" THEN voice ELSE DEFAULT_VOICE_FR >>

\* get_pipeline_and_voice over a table of the supported languages only: no
\* pipeline for any other language.
get_pipeline_and_voice_supported_only(language, voice) ==
    IF language = "fr"
    THEN << "pipeline_fr", IF voice # "" THEN voice ELSE DEFAULT_VOICE_FR >>
    ELSE IF language = "en"
    THEN << "pipeline_en", IF voice # "" THEN voice ELSE DEFAULT_VOICE_EN >>
    ELSE << "none", voice >>

\* The pipeline of the language ("fr", else English) and the requested
\* voice, or the default voice of the language when none is requested.
get_pipeline_and_voice(language, voice) ==
    IF language = "fr"
    THEN << "pipeline_fr", IF voice # "" THEN voice ELSE DEFAULT_VOICE_FR >>
    ELSE << "pipeline_en", IF voice # "" THEN voice ELSE DEFAULT_VOICE_EN >>

\* The failure dict with the "error" entry of the success dict.
generate_audio_failure_without_error(e, duration) ==
    [success |-> FALSE, filename |-> None, filepath |-> None,
     duration |-> duration, error |-> None]

\* The dict of the `except Exception` branch of generate_audio.
generate_audio_failure(e, duration) ==
    [success |-> FALSE, filename |-> None, filepath |-> None,
     duration |-> duration, error |-> Some(e)]

\* generate_audio returns `res` to the handler; its locals end with it.
TtsReturn(r, res) ==
    /\ result' = [result EXCEPT ![r] = Some(res)]
    /\ pc' = [pc EXCEPT ![r] = "returned"]
    /\ pipeline' = [pipeline EXCEPT ![r] = "none"]
    /\ selected_voice' = [selected_voice EXCEPT ![r] = ""]
    /\ audio_chunks' = [audio_chunks EXCEPT ![r] = <<>>]

\* generate_audio is entered: the pipeline is resolved and called.  The
\* call raises, or it hands back the generator.
generate_audio_call(r) ==
    /\ pc[r] = "validated"
    /\ kind[r] = "tts"
    /\ calls' = [calls EXCEPT ![r] = @ + 1]
    /\ \/ LET pv == get_pipeline_and_voice(request[r].language,
                                           request[r].voice)
          IN  /\ pipeline' = [pipeline EXCEPT ![r] = pv[1]]
              /\ selected_voice' = [selected_voice EXCEPT ![r] = pv[2]]
              /\ pc' = [pc EXCEPT ![r] = "draining"]
              /\ UNCHANGED << audio_chunks, result >>
       \/ \E d \in Durations :
             TtsReturn(r, generate_audio_failure(EngineError, d))
    /\ UNCHANGED << kind, request, sttLocals, response, outputs, uploads,
                    loop >>

\* np.concatenate over the chunks taken last to first.
RECURSIVE concatenate_last_first(_)
concatenate_last_first(chunks) ==
    IF chunks = <<>> THEN <<>>
    ELSE concatenate_last_first(Tail(chunks)) \o Head(chunks)

\* np.concatenate(audio_chunks)
RECURSIVE concatenate(_)
concatenate(chunks) ==
    IF chunks = <<>> THEN <<>>
    ELSE Head(chunks) \o concatenate(Tail(chunks))

\* generate_audio_drain without the check of the empty list.
generate_audio_drain_unchecked(r) ==
    /\ pc[r] = "draining"
    /\ kind[r] = "tts"
    /\ \/ /\ Len(audio_chunks[r]) < MaxChunks
          /\ audio_chunks' = [audio_chunks EXCEPT ![r] =
                 Append(@, Chunk(Len(@) + 1))]
          /\ UNCHANGED << pc, result >>
          /\ UNCHANGED << pipeline, selected_voice >>
       \/ \E d \in Durations :
             TtsReturn(r, generate_audio_failure(EngineError, d))
       \/ /\ pc' = [pc EXCEPT ![r] = "writing"]
          /\ UNCHANGED << ttsLocals, result >>
    /\ UNCHANGED << kind, request, sttLocals, response, calls, outputs,
                    uploads, loop >>

\* One turn of `for (gs, ps, audio) in generator`: the generator yields a
\* chunk, or raises, or is exhausted; after the loop the empty list raises
\* ValueError.
generate_audio_drain(r) ==
    /\ pc[r] = "draining"
    /\ kind[r] = "tts"
    /\ \/ /\ Len(audio_chunks[r]) < MaxChunks
          /\ audio_chunks' = [audio_chunks EXCEPT ![r] =
                 Append(@, Chunk(Len(@) + 1))]
          /\ UNCHANGED << pc, result >>
          /\ UNCHANGED << pipeline, selected_voice >>
       \/ \E d \in Durations :
             TtsReturn(r, generate_audio_failure(EngineError, d))
       \/ /\ audio_chunks[r] = <<>>
          /\ \E d \in Durations :
                TtsReturn(r, generate_audio_failure(
                                 "Kokoro n'a genere aucun audio", d))
       \/ /\ audio_chunks[r] # <<>>
          /\ pc' = [pc EXCEPT ![r] = "writing"]
          /\ UNCHANGED << ttsLocals, result >>
    /\ UNCHANGED << kind, request, sttLocals, response, calls, outputs,
                    uploads, loop >>

\* f"audio_{unique_id}.{AUDIO_FORMAT}"
audio_filename(unique_id) ==
    [prefix |-> "audio_", id |-> unique_id, ext |-> AUDIO_FORMAT]

\* The file is named after a fresh uuid4 prefix and written with sf.write,
\* which returns, or raises before or after it has created the file.
generate_audio_write(r) ==
    /\ pc[r] = "writing"
    /\ kind[r] = "tts"
    /\ \E unique_id \in uuid4_prefixes(UsedAudioIds), d \in Durations :
          LET full_audio == concatenate(audio_chunks[r])
              filename == audio_filename(unique_id)
              filepath == path_join(TTS_OUTPUT_DIR, filename)
          IN  \/ /\ outputs' = WriteFile(outputs, filename, full_audio)
                 /\ TtsReturn(r, [success |-> TRUE,
                                   filename |-> Some(filename),
                                   filepath |-> Some(filepath),
                                   duration |-> d,
                                   error |-> None])
              \/ /\ outputs' \in { outputs, WriteFile(outputs, filename, <<>>) }
                 /\ TtsReturn(r, generate_audio_failure(WriteError, d))
    /\ UNCHANGED << kind, request, sttLocals, response, calls, uploads,
                    loop >>

\* FileResponse(path, media_type, filename, headers)
FileResponse(path, filename, headers) ==
    [status_code |-> 200, media_type |-> "audio/wav", path |-> path,
     filename |-> filename, headers |-> headers]

text_to_speech_respond(r) ==
    /\ pc[r] = "returned"
    /\ kind[r] = "tts"
    /\ LET res == result[r][1]
       IN  IF ~ res.success
           THEN Respond(r, HTTPException(500,
                    [msg |-> "Erreur lors de la generation audio",
                     error |-> res.error[1]]))
           ELSE Respond(r, FileResponse(res.filepath[1], res.filename[1],
                    [X_Generation_Duration |-> res.duration,
                     X_Audio_Filename |-> res.filename[1]]))
    /\ UNCHANGED << kind, request, ttsLocals, sttLocals, result, calls,
                    outputs, uploads, loop >>

\* ------------------------------------------------------------------------
\* GET /audio/{filename}, GET /voices and GET /stt/languages  (main.py)
\* ------------------------------------------------------------------------
\* The entry ".." every directory has: it names a directory, not a file.
ParentDirectory == [prefix |-> "..", id |-> 0, ext |-> ""]

\* The path segments the clients ask for: the name of the first artifact
\* and the parent entry of the directory.
DownloadNames == { audio_filename(1), ParentDirectory }

\* os.path.exists(os.path.join(dir, name)): true of a file of the directory
\* and of the entries that name a directory.
os_path_exists(dir, name) == name \in DOMAIN dir \/ name = ParentDirectory

\* The whole handler: it only reads the directory, once, so the request is
\* received and answered in one step.
download_audio(r) ==
    /\ Arrives(r)
    /\ \E filename \in DownloadNames :
          /\ request' = [request EXCEPT ![r] = [filename |-> filename]]
          /\ IF ~ os_path_exists(outputs, filename)
             THEN Respond(r, HTTPException(404,
                      [msg |-> "Fichier audio introuvable",
                       filename |-> filename]))
             ELSE Respond(r, FileResponse(
                      path_join(TTS_OUTPUT_DIR, filename), filename, None))
    /\ kind' = [kind EXCEPT ![r] = "download"]
    /\ UNCHANGED << ttsLocals, sttLocals, result, calls, outputs, uploads,
                    loop >>

AVAILABLE_VOICES ==
    [fr |-> <<"ff_siwis">>,
     en |-> <<"af_heart", "af_bella", "af_sarah", "af_sky", "am_adam",
              "am_michael", "bf_emma", "bf_isabella", "bm_george",
              "bm_lewis">>]

get_supported_languages ==
    << [code |-> "fr", label |-> "Francais"],
       [code |-> "en", label |-> "English"],
       [code |-> "auto", label |-> "Detection automatique"] >>

\* A handler that returns a constant body.
ListRequest(r, endpoint, body) ==
    /\ request' = [request EXCEPT ![r] = [endpoint |-> endpoint]]
    /\ kind' = [kind EXCEPT ![r] = "list"]
    /\ Respond(r, [status_code |-> 200, body |-> body])
    /\ UNCHANGED << ttsLocals, sttLocals, result, calls, outputs, uploads,
                    loop >>

list_voices(r) ==
    /\ Arrives(r)
    /\ ListRequest(r, "/voices",
                   [success |-> TRUE, voices |-> AVAILABLE_VOICES])

list_stt_languages(r) ==
    /\ Arrives(r)
    /\ ListRequest(r, "/stt/languages",
                   [success |-> TRUE, languages |-> get_supported_languages])

\* ------------------------------------------------------------------------
\* stt_service.py, transcribe_audio
\* ------------------------------------------------------------------------
\* The dict of the `except Exception` branch of transcribe_audio.
transcribe_audio_failure(e, duration) ==
    [success |-> FALSE, text |-> None, language |-> None,
     language_probability |-> None, segments |-> <<>>,
     duration |-> duration, error |-> Some(e)]

\* transcribe_audio returns `res` to the handler; its locals end with it.
SttReturn(r, res) ==
    /\ result' = [result EXCEPT ![r] = Some(res)]
    /\ pc' = [pc EXCEPT ![r] = "returned"]
    /\ pipeline' = [pipeline EXCEPT ![r] = "none"]
    /\ segments_list' = [segments_list EXCEPT ![r] = <<>>]
    /\ full_text' = [full_text EXCEPT ![r] = <<>>]
    /\ segments' = [segments EXCEPT ![r] = None]
    /\ info' = [info EXCEPT ![r] = None]

\* The language handed on as it came, "auto" included.
engine_language_verbatim(language) == Some(language)

\* None if language == "auto" else language
engine_language(language) ==
    IF language = "auto" THEN None ELSE Some(language)

\* What stt_model.transcribe reports as info.language: the forced language,
\* or the one it detects.
DetectedLanguages(language) ==
    IF language = None THEN {"fr", "en"} ELSE {language[1]}

\* transcribe_audio is entered with the path and the language of the
\* handler: stt_model.transcribe decodes the file found at the path and
\* hands back the segment generator and the info, or raises (always, if the
\* file is gone).
transcribe_audio_call(r) ==
    /\ pc[r] = "written"
    /\ kind[r] \in {"upload", "record"}
    /\ calls' = [calls EXCEPT ![r] = @ + 1]
    /\ language_param' = [language_param EXCEPT ![r] =
            engine_language(request[r].language)]
    /\ \/ /\ upload_filepath[r][1][2] \in DOMAIN uploads
          /\ \E l \in DetectedLanguages(language_param'[r]) :
                info' = [info EXCEPT ![r] =
                    Some([language |-> l, language_probability |-> 98])]
          /\ segments' = [segments EXCEPT ![r] =
                 Some(uploads[upload_filepath[r][1][2]].audio)]
          /\ pipeline' = [pipeline EXCEPT ![r] = "stt_model"]
          /\ pc' = [pc EXCEPT ![r] = "draining"]
          /\ UNCHANGED << segments_list, full_text, result >>
       \/ \E d \in Durations :
             SttReturn(r, transcribe_audio_failure(EngineError, d))
    /\ UNCHANGED << kind, request, selected_voice, audio_chunks,
                    upload_filepath, warned, response, outputs, uploads,
                    loop >>

\* transcribe_audio_drain with `full_text += segment.text.strip()`: the
\* text is assembled from the trimmed texts of the segments.
transcribe_audio_drain_joins_trimmed(r) ==
    /\ pc[r] = "draining"
    /\ kind[r] \in {"upload", "record"}
    /\ \/ /\ Len(segments_list[r]) < MaxSegments
          /\ LET text == SegmentText(segments[r][1],
                                      Len(segments_list[r]) + 1)
             IN  /\ segments_list' = [segments_list EXCEPT ![r] =
                        Append(@, [text |-> StrStrip(text)])]
                 /\ full_text' = [full_text EXCEPT ![r] = @ \o StrStrip(text)]
          /\ UNCHANGED << pc, result, pipeline, segments, info >>
       \/ \E d \in Durations :
             SttReturn(r, transcribe_audio_failure(EngineError, d))
       \/ \E d \in Durations :
             LET stripped == StrStrip(full_text[r])
             IN  IF stripped = <<>>
                 THEN SttReturn(r, transcribe_audio_failure(
                                       "Aucun texte transcrit", d))
                 ELSE SttReturn(r, [success |-> TRUE,
                                    text |-> Some(stripped),
                                    language |-> Some(info[r][1].language),
                                    language_probability |->
                                        Some(info[r][1].language_probability),
                                    segments |-> segments_list[r],
                                    duration |-> d,
                                    error |-> None])
    /\ UNCHANGED << kind, request, selected_voice, audio_chunks,
                    language_param, upload_filepath, warned, response, calls,
                    outputs, uploads, loop >>

\* transcribe_audio_drain with the check `if not segments_list` in place of
\* `if not full_text`.
transcribe_audio_drain_checks_list(r) ==
    /\ pc[r] = "draining"
    /\ kind[r] \in {"upload", "record"}
    /\ \/ /\ Len(segments_list[r]) < MaxSegments
          /\ LET text == SegmentText(segments[r][1],
                                      Len(segments_list[r]) + 1)
             IN  /\ segments_list' = [segments_list EXCEPT ![r] =
                        Append(@, [text |-> StrStrip(text)])]
                 /\ full_text' = [full_text EXCEPT ![r] = @ \o text]
          /\ UNCHANGED << pc, result, pipeline, segments, info >>
       \/ \E d \in Durations :
             SttReturn(r, transcribe_audio_failure(EngineError, d))
       \/ \E d \in Durations :
             LET stripped == StrStrip(full_text[r])
             IN  IF segments_list[r] = <<>>
                 THEN SttReturn(r, transcribe_audio_failure(
                                       "Aucun texte transcrit", d))
                 ELSE SttReturn(r, [success |-> TRUE,
                                    text |-> Some(stripped),
                                    language |-> Some(info[r][1].language),
                                    language_probability |->
                                        Some(info[r][1].language_probability),
                                    segments |-> segments_list[r],
                                    duration |-> d,
                                    error |-> None])
    /\ UNCHANGED << kind, request, selected_voice, audio_chunks,
                    language_param, upload_filepath, warned, response, calls,
                    outputs, uploads, loop >>

\* One turn of `for segment in segments`: the generator yields a segment,
\* or raises, or is exhausted; after the loop the text is trimmed and an
\* empty text raises ValueError.
transcribe_audio_drain(r) ==
    /\ pc[r] = "draining"
    /\ kind[r] \in {"upload", "record"}
    /\ \/ /\ Len(segments_list[r]) < MaxSegments
          /\ LET text == SegmentText(segments[r][1],
                                      Len(segments_list[r]) + 1)
             IN  /\ segments_list' = [segments_list EXCEPT ![r] =
                        Append(@, [text |-> StrStrip(text)])]
                 /\ full_text' = [full_text EXCEPT ![r] = @ \o text]
          /\ UNCHANGED << pc, result, pipeline, segments, info >>
       \/ \E d \in Durations :
             SttReturn(r, transcribe_audio_failure(EngineError, d))
       \/ \E d \in Durations :
             LET stripped == StrStrip(full_text[r])
             IN  IF stripped = <<>>
                 THEN SttReturn(r, transcribe_audio_failure(
                                       "Aucun texte transcrit", d))
                 ELSE SttReturn(r, [success |-> TRUE,
                                    text |-> Some(stripped),
                                    language |-> Some(info[r][1].language),
                                    language_probability |->
                                        Some(info[r][1].language_probability),
                                    segments |-> segments_list[r],
                                    duration |-> d,
                                    error |-> None])
    /\ UNCHANGED << kind, request, selected_voice, audio_chunks,
                    language_param, upload_filepath, warned, response, calls,
                    outputs, uploads, loop >>

\* ------------------------------------------------------------------------
\* POST /stt/upload and POST /stt/record  (main.py)
\* ------------------------------------------------------------------------
ReceiveStt(r, handler, bodies) ==
    /\ \E body \in bodies :
          request' = [request EXCEPT ![r] = body]
    /\ kind' = [kind EXCEPT ![r] = handler]
    /\ pc' = [pc EXCEPT ![r] = "received"]
    /\ UNCHANGED << ttsLocals, sttLocals, result, response, calls,
                    outputs, uploads, loop >>

receive_upload(r) ==
    /\ Arrives(r)
    /\ ReceiveStt(r, "upload", ConcurrentSttRequest)

receive_record(r) ==
    /\ Arrives(r)
    /\ ReceiveStt(r, "record", ConcurrentSttRequest)

allowed_types == {"audio/wav", "audio/wave", "audio/mp3", "audio/mpeg",
                  "audio/ogg", "audio/webm", "audio/m4a"}

\* file_size_mb > STT_MAX_FILE_SIZE_MB
too_large(size) == TrueDivGreater(size, BytesPerMB, STT_MAX_FILE_SIZE_MB)

\* The coroutine of /stt/upload up to `await file.read()`: the declared
\* content type is checked, then the coroutine waits for the bytes.
speech_to_text_upload_begin(r) ==
    /\ pc[r] = "received"
    /\ kind[r] = "upload"
    /\ loop = 0
    /\ IF request[r].file.content_type \notin allowed_types
       THEN Respond(r, HTTPException(400,
                [msg |-> "Format non supporte",
                 content_type |-> request[r].file.content_type]))
       ELSE /\ pc' = [pc EXCEPT ![r] = "reading"]
            /\ UNCHANGED response
    /\ UNCHANGED << kind, request, ttsLocals, sttLocals, result, calls,
                    outputs, uploads, loop >>

\* os.path.splitext(file.filename)[1] or ".wav"
upload_extension(filename) ==
    IF splitext(filename)[2] # "" THEN splitext(filename)[2] ELSE ".wav"

\* f"upload_{unique_id}{extension}"
upload_filename(unique_id, extension) ==
    [prefix |-> "upload_", id |-> unique_id, ext |-> extension]

\* f"record_{unique_id}.webm"
record_filename(unique_id) ==
    [prefix |-> "record_", id |-> unique_id, ext |-> ".webm"]

\* SaveUpload of a handler that does not keep the event loop, as a handler
\* run on a worker thread would.
SaveUpload_on_worker_thread(r, filenames) ==
    /\ pc[r] = "reading"
    /\ loop = 0
    /\ IF too_large(request[r].file.size)
       THEN /\ Respond(r, HTTPException(400,
                   [msg |-> "Fichier trop volumineux",
                    size |-> request[r].file.size,
                    limit |-> STT_MAX_FILE_SIZE_MB]))
            /\ UNCHANGED << upload_filepath, uploads, loop >>
       ELSE /\ \E name \in filenames :
                /\ upload_filepath' = [upload_filepath EXCEPT ![r] =
                       Some(path_join(STT_UPLOAD_DIR, name))]
                /\ uploads' = WriteFile(uploads, name,
                                         [size |-> request[r].file.size,
                                          audio |-> request[r].file.audio])
            /\ pc' = [pc EXCEPT ![r] = "written"]
            /\ UNCHANGED << response, loop >>
    /\ UNCHANGED << kind, request, ttsLocals, segments_list, full_text,
                    language_param, segments, info, warned, result, calls,
                    outputs >>

\* The coroutine resumes with the bytes: the size check, then the bytes
\* are written to a file named after a fresh uuid4 prefix.  From here to
\* its response the coroutine keeps the event loop.
SaveUpload(r, filenames) ==
    /\ pc[r] = "reading"
    /\ loop = 0
    /\ IF too_large(request[r].file.size)
       THEN /\ Respond(r, HTTPException(400,
                   [msg |-> "Fichier trop volumineux",
                    size |-> request[r].file.size,
                    limit |-> STT_MAX_FILE_SIZE_MB]))
            /\ UNCHANGED << upload_filepath, uploads, loop >>
       ELSE /\ \E name \in filenames :
                /\ upload_filepath' = [upload_filepath EXCEPT ![r] =
                       Some(path_join(STT_UPLOAD_DIR, name))]
                /\ uploads' = WriteFile(uploads, name,
                                         [size |-> request[r].file.size,
                                          audio |-> request[r].file.audio])
            /\ pc' = [pc EXCEPT ![r] = "written"]
            /\ loop' = r
            /\ UNCHANGED response
    /\ UNCHANGED << kind, request, ttsLocals, segments_list, full_text,
                    language_param, segments, info, warned, result, calls,
                    outputs >>

speech_to_text_upload_save(r) ==
    /\ kind[r] = "upload"
    /\ SaveUpload(r, { upload_filename(unique_id,
                           upload_extension(request[r].file.filename)) :
                       unique_id \in uuid4_prefixes(UsedUploadIds("upload_")) })

\* The coroutine of /stt/record up to `await file.read()`.
speech_to_text_record_begin(r) ==
    /\ pc[r] = "received"
    /\ kind[r] = "record"
    /\ loop = 0
    /\ pc' = [pc EXCEPT ![r] = "reading"]
    /\ UNCHANGED << kind, request, ttsLocals, sttLocals, result, response,
                    calls, outputs, uploads, loop >>

speech_to_text_record_save(r) ==
    /\ kind[r] = "record"
    /\ SaveUpload(r, { record_filename(unique_id) :
                       unique_id \in uuid4_prefixes(UsedUploadIds("record_")) })

\* The cleanup placed after the check of the result: a failed transcription
\* raises its HTTPException before the file is removed.
RemoveUpload_after_result_check(r) ==
    LET name == upload_filepath[r][1][2]
    IN  \/ /\ result[r][1].success
           /\ name \in DOMAIN uploads
           /\ uploads' = RemoveFile(uploads, name)
           /\ UNCHANGED warned
        \/ /\ result[r][1].success
           /\ warned' = [warned EXCEPT ![r] = TRUE]
           /\ UNCHANGED uploads
        \/ /\ ~ result[r][1].success
           /\ UNCHANGED << uploads, warned >>

\* RemoveUpload with `except: pass`: a failed removal leaves no trace.
RemoveUpload_unlogged(r) ==
    LET name == upload_filepath[r][1][2]
    IN  \/ /\ name \in DOMAIN uploads
           /\ uploads' = RemoveFile(uploads, name)
           /\ UNCHANGED warned
        \/ UNCHANGED << uploads, warned >>

\* try: os.remove(upload_filepath) / except: logger.warning.  The removal
\* succeeds, or raises and leaves the directory as it is.
RemoveUpload(r) ==
    LET name == upload_filepath[r][1][2]
    IN  \/ /\ name \in DOMAIN uploads
           /\ uploads' = RemoveFile(uploads, name)
           /\ UNCHANGED warned
        \/ /\ warned' = [warned EXCEPT ![r] = TRUE]
           /\ UNCHANGED uploads

\* SttRespond without the try/except around os.remove: the exception of a
\* failed removal leaves the handler and becomes the response.
SttRespond_escalating(r) ==
    /\ pc[r] = "returned"
    /\ LET res == result[r][1]
           name == upload_filepath[r][1][2]
       IN  \/ /\ name \in DOMAIN uploads
              /\ uploads' = RemoveFile(uploads, name)
              /\ UNCHANGED warned
              /\ IF ~ res.success
                 THEN Respond(r, HTTPException(500,
                          [msg |-> "Erreur lors de la transcription",
                           error |-> res.error[1]]))
                 ELSE Respond(r, [status_code |-> 200,
                          body |-> [success |-> TRUE,
                                    text |-> res.text[1],
                                    language |-> res.language[1],
                                    language_probability |->
                                        res.language_probability[1],
                                    segments |-> res.segments,
                                    duration |-> res.duration]])
           \/ /\ warned' = [warned EXCEPT ![r] = TRUE]
              /\ UNCHANGED uploads
              /\ Respond(r, HTTPException(500,
                     [msg |-> "Internal Server Error"]))
    /\ loop' = 0
    /\ UNCHANGED << kind, request, ttsLocals, segments_list, full_text,
                    language_param, upload_filepath, segments, info, result,
                    calls, outputs >>

\* SttRespond of a coroutine that never gives the event loop back.
SttRespond_keeps_loop(r) ==
    /\ pc[r] = "returned"
    /\ RemoveUpload(r)
    /\ LET res == result[r][1]
       IN  IF ~ res.success
           THEN Respond(r, HTTPException(500,
                    [msg |-> "Erreur lors de la transcription",
                     error |-> res.error[1]]))
           ELSE Respond(r, [status_code |-> 200,
                    body |-> [success |-> TRUE,
                              text |-> res.text[1],
                              language |-> res.language[1],
                              language_probability |->
                                  res.language_probability[1],
                              segments |-> res.segments,
                              duration |-> res.duration]])
    /\ UNCHANGED << kind, request, ttsLocals, segments_list, full_text,
                    language_param, upload_filepath, segments, info, result,
                    calls, outputs, loop >>

\* The end of both STT handlers, once transcribe_audio has returned: the
\* cleanup, then HTTPException(500) on a failed result, else the JSON body;
\* the coroutine ends and frees the event loop.
SttRespond(r) ==
    /\ pc[r] = "returned"
    /\ RemoveUpload(r)
    /\ LET res == result[r][1]
       IN  IF ~ res.success
           THEN Respond(r, HTTPException(500,
                    [msg |-> "Erreur lors de la transcription",
                     error |-> res.error[1]]))
           ELSE Respond(r, [status_code |-> 200,
                    body |-> [success |-> TRUE,
                              text |-> res.text[1],
                              language |-> res.language[1],
                              language_probability |->
                                  res.language_probability[1],
                              segments |-> res.segments,
                              duration |-> res.duration]])
    /\ loop' = 0
    /\ UNCHANGED << kind, request, ttsLocals, segments_list, full_text,
                    language_param, upload_filepath, segments, info, result,
                    calls, outputs >>

speech_to_text_upload_respond(r) ==
    /\ kind[r] = "upload"
    /\ SttRespond(r)

speech_to_text_record_respond(r) ==
    /\ kind[r] = "record"
    /\ SttRespond(r)

\* ------------------------------------------------------------------------
\* The service
\* ------------------------------------------------------------------------
Next ==
    \E r \in Reqs :
        \/ receive_tts(r)
        \/ text_to_speech_validate(r)
        \/ generate_audio_call(r)
        \/ generate_audio_drain(r)
        \/ generate_audio_write(r)
        \/ text_to_speech_respond(r)
        \/ download_audio(r)
        \/ list_voices(r)
        \/ list_stt_languages(r)
        \/ receive_upload(r)
        \/ speech_to_text_upload_begin(r)
        \/ speech_to_text_upload_save(r)
        \/ speech_to_text_upload_respond(r)
        \/ receive_record(r)
        \/ speech_to_text_record_begin(r)
        \/ speech_to_text_record_save(r)
        \/ speech_to_text_record_respond(r)
        \/ transcribe_audio_call(r)
        \/ transcribe_audio_drain(r)

Spec == Init /\ [][Next]_vars

\* The steps of the handler of request r, once the request is received.
Handles(r) ==
    \/ text_to_speech_validate(r)
    \/ generate_audio_call(r)
    \/ generate_audio_drain(r)
    \/ generate_audio_write(r)
    \/ text_to_speech_respond(r)
    \/ speech_to_text_upload_begin(r)
    \/ speech_to_text_upload_save(r)
    \/ speech_to_text_upload_respond(r)
    \/ speech_to_text_record_begin(r)
    \/ speech_to_text_record_save(r)
    \/ speech_to_text_record_respond(r)
    \/ transcribe_audio_call(r)
    \/ transcribe_audio_drain(r)

\* The server keeps running every handler it has started: a worker thread
\* is scheduled by the operating system, a coroutine that is ready is run by
\* the event loop when the running one ends or awaits, and the calls into
\* the engines and the filesystem return or raise.
SpecLive == Init /\ [][Next]_vars /\ \A r \in Reqs : WF_vars(Handles(r))

\* ------------------------------------------------------------------------
\* One request over the whole range of inputs
\* ------------------------------------------------------------------------
post_tts ==
    /\ Arrives(1)
    /\ ReceiveTts(1, TTSRequest)

post_stt_upload ==
    /\ Arrives(1)
    /\ ReceiveStt(1, "upload", SttRequest)

post_stt_record ==
    /\ Arrives(1)
    /\ ReceiveStt(1, "record", SttRequest)

NextSingle ==
    \/ post_tts
    \/ text_to_speech_validate(1)
    \/ generate_audio_call(1)
    \/ generate_audio_drain(1)
    \/ generate_audio_write(1)
    \/ text_to_speech_respond(1)
    \/ download_audio(1)
    \/ list_voices(1)
    \/ list_stt_languages(1)
    \/ post_stt_upload
    \/ speech_to_text_upload_begin(1)
    \/ speech_to_text_upload_save(1)
    \/ speech_to_text_upload_respond(1)
    \/ post_stt_record
    \/ speech_to_text_record_begin(1)
    \/ speech_to_text_record_save(1)
    \/ speech_to_text_record_respond(1)
    \/ transcribe_audio_call(1)
    \/ transcribe_audio_drain(1)

SpecSingle == Init /\ [][NextSingle]_vars


\* ------------------------------------------------------------------------
\* generate_audio called directly, without the validation of the handler
\* ------------------------------------------------------------------------
\* result = generate_audio(text, language, voice, speed) from any caller of
\* the module: every text, language and voice reaches the adapter.
generate_audio_direct ==
    /\ Arrives(1)
    /\ \E body \in TTSRequest :
          request' = [request EXCEPT ![1] = body]
    /\ kind' = [kind EXCEPT ![1] = "tts"]
    /\ pc' = [pc EXCEPT ![1] = "validated"]
    /\ UNCHANGED << ttsLocals, sttLocals, result, response, calls,
                    outputs, uploads, loop >>

NextDirect ==
    \/ generate_audio_direct
    \/ generate_audio_call(1)
    \/ generate_audio_drain(1)
    \/ generate_audio_write(1)

SpecDirect == Init /\ [][NextDirect]_vars

\* ------------------------------------------------------------------------
\* Vocabulary of the properties
\* ------------------------------------------------------------------------
IsTts(r) == kind[r] = "tts"
IsStt(r) == kind[r] \in {"upload", "record"}
Done(r) == pc[r] = "done"
Status(r) == response[r][1].status_code
Detail(r) == response[r][1].detail
TempFile(r) == upload_filepath[r][1][2]
Rejected(r, msg) == Done(r) /\ Status(r) = 400 /\ Detail(r).msg = msg
NoAudioError == "Kokoro n'a genere aucun audio"
NoTextError == "Aucun texte transcrit"

\* The request has left the validation of its handler behind.
PastValidation(r) ==
    pc[r] \notin {"idle", "received", "reading"}

\* ------------------------------------------------------------------------
\* C1  POST /tts: a request that fails validation (text empty after
\* trimming, or longer than MAX_TEXT_LENGTH, or a language other than fr
\* and en) is answered 400, and generate_audio is never entered for it.
\* ------------------------------------------------------------------------
FailsTtsValidation(req) ==
    \/ PyLen(PyStrip(req.text)) = 0
    \/ PyLen(req.text) > MAX_TEXT_LENGTH
    \/ req.language \notin {"fr", "en"}

C1_InvalidTtsRejectedBeforeEngine ==
    \A r \in Reqs :
        (IsTts(r) /\ FailsTtsValidation(request[r])) =>
            /\ calls[r] = 0
            /\ result[r] = None
            /\ pc[r] \in {"received", "done"}
            /\ Done(r) => Status(r) = 400

C1_Witness ==
    \E r \in Reqs :
        /\ IsTts(r) /\ Done(r) /\ Status(r) = 400 /\ calls[r] = 0
        /\ PyLen(PyStrip(request[r].text)) > 0
        /\ PyLen(request[r].text) <= MAX_TEXT_LENGTH
        /\ request[r].language = "de"


\* ------------------------------------------------------------------------
\* C2  Cleanup guarantee.  As claimed: when an STT request that wrote a
\* temporary file produces its response, that file no longer exists.
\* ------------------------------------------------------------------------
Responds(r) == pc[r] = "returned" /\ pc'[r] = "done"

C2_TempFileGoneAtResponse ==
    [][ \A r \in Reqs :
          (IsStt(r) /\ Responds(r)) => TempFile(r) \notin DOMAIN uploads' ]_vars

\* C2 as amended: when an STT request that wrote a temporary file produces
\* its response, after a successful or a failed transcription, that file no
\* longer exists unless os.remove raised, which the handler has logged.
C2_TempFileGoneUnlessRemoveFailed ==
    [][ \A r \in Reqs :
          (IsStt(r) /\ Responds(r)) =>
              /\ result[r] # None
              /\ warned'[r] \/ TempFile(r) \notin DOMAIN uploads' ]_vars

C2_Witness ==
    \E r1, r2 \in Reqs :
        /\ IsStt(r1) /\ Done(r1) /\ upload_filepath[r1] # None
        /\ result[r1][1].success /\ ~ warned[r1]
        /\ TempFile(r1) \notin DOMAIN uploads
        /\ IsStt(r2) /\ Done(r2) /\ upload_filepath[r2] # None
        /\ ~ result[r2][1].success /\ ~ warned[r2]
        /\ TempFile(r2) \notin DOMAIN uploads

\* ------------------------------------------------------------------------
\* C3  As claimed: on /stt/upload and on /stt/record, a request whose
\* declared content type is not in the allow-list, or whose byte count is
\* over the ceiling, is answered 400 before any file is written to the
\* upload directory and before transcribe_audio is entered.
\* ------------------------------------------------------------------------
FailsSttValidation(req) ==
    \/ req.file.content_type \notin allowed_types
    \/ req.file.size > STT_MAX_FILE_SIZE_MB * BytesPerMB

C3_InvalidSttRejectedBeforeWrite ==
    \A r \in Reqs :
        (IsStt(r) /\ FailsSttValidation(request[r])) =>
            /\ upload_filepath[r] = None
            /\ calls[r] = 0
            /\ pc[r] \in {"received", "reading", "done"}
            /\ Done(r) => Status(r) = 400

\* ------------------------------------------------------------------------
\* C4  Upload size boundary: a payload of exactly STT_MAX_FILE_SIZE_MB MiB
\* passes the size check, one byte more is answered 400, and the size check
\* decides on the number of received bytes alone.
\* ------------------------------------------------------------------------
RejectedForSize(r) ==
    /\ Rejected(r, "Fichier trop volumineux")
    /\ upload_filepath[r] = None

C4_SizeBoundary ==
    \A r \in Reqs :
        (IsStt(r) /\ PastValidation(r)
                  /\ ~ Rejected(r, "Format non supporte")) =>
            /\ RejectedForSize(r) <=>
                   request[r].file.size > STT_MAX_FILE_SIZE_MB * BytesPerMB
            /\ ~ RejectedForSize(r) => upload_filepath[r] # None

C4_Witness ==
    \E r \in Reqs :
        /\ IsStt(r)
        /\ request[r].file.size = STT_MAX_FILE_SIZE_MB * BytesPerMB
        /\ pc[r] = "written"
        /\ TempFile(r) \in DOMAIN uploads
        /\ uploads[TempFile(r)].size = STT_MAX_FILE_SIZE_MB * BytesPerMB


\* ------------------------------------------------------------------------
\* C5  As claimed: any two successful generate_audio calls, successive or
\* concurrent, return distinct filenames.
\* ------------------------------------------------------------------------
Succeeded(r) == result[r] # None /\ result[r][1].success

C5_DistinctFilenames ==
    \A r1, r2 \in Reqs :
        (r1 # r2 /\ IsTts(r1) /\ IsTts(r2) /\ Succeeded(r1) /\ Succeeded(r2))
            => result[r1][1].filename # result[r2][1].filename

\* ------------------------------------------------------------------------
\* C6  As claimed: every request ends with exactly one response; for the
\* requests that go through validation and an adapter (POST) it is 400
\* iff validation failed (and then no adapter was entered), 500 iff the
\* adapter was entered and returned success = false, and the success
\* response iff the adapter was entered and returned success = true.
\* ------------------------------------------------------------------------
FailsValidation(r) ==
    \/ IsTts(r) /\ FailsTtsValidation(request[r])
    \/ IsStt(r) /\ FailsSttValidation(request[r])

C6_ResponseFollowsStateMachine ==
    \A r \in Reqs :
        /\ (response[r] # None) <=> Done(r)
        /\ FailsValidation(r) => calls[r] = 0
        /\ (Done(r) /\ (IsTts(r) \/ IsStt(r))) =>
              /\ Status(r) \in {200, 400, 500}
              /\ (Status(r) = 400) <=> FailsValidation(r)
              /\ (Status(r) = 400) => (calls[r] = 0 /\ result[r] = None)
              /\ (Status(r) = 500) <=>
                     (calls[r] = 1 /\ result[r] # None /\ ~ Succeeded(r))
              /\ (Status(r) = 200) <=> (calls[r] = 1 /\ Succeeded(r))
              /\ (Status(r) = 200 /\ IsTts(r)) =>
                     /\ Some(response[r][1].filename) = result[r][1].filename
                     /\ response[r][1].headers.X_Generation_Duration
                            = result[r][1].duration
              /\ (Status(r) = 200 /\ IsStt(r)) =>
                     Some(response[r][1].body.text) = result[r][1].text

\* ------------------------------------------------------------------------
\* C7  generate_audio and transcribe_audio never raise: a request that has
\* left its adapter holds a result; a failed result has success = false, an
\* error string and null filename/filepath or text/language; a successful
\* result has success = true and a null error.
\* ------------------------------------------------------------------------
C7_AdaptersReturnResults ==
    \A r \in Reqs :
        /\ (calls[r] > 0 /\ pc[r] \in {"returned", "done"})
              => result[r] # None
        /\ result[r] # None =>
              LET res == result[r][1]
              IN  IF res.success
                  THEN /\ res.error = None
                       /\ IsTts(r) => (res.filename # None /\ res.filepath # None)
                       /\ IsStt(r) => (res.text # None /\ res.language # None)
                  ELSE /\ res.error # None
                       /\ IsTts(r) => (res.filename = None /\ res.filepath = None)
                       /\ IsStt(r) => (res.text = None /\ res.language = None)

C7_Witness ==
    \E r1, r2 \in Reqs :
        /\ IsTts(r1) /\ result[r1] # None
        /\ result[r1][1].error = Some(WriteError)
        /\ IsStt(r2) /\ result[r2] # None
        /\ result[r2][1].error = Some(EngineError)

\* ------------------------------------------------------------------------
\* C8  As claimed: a POST /tts request whose text is longer than
\* MAX_TEXT_LENGTH is rejected with a message that reports the limit and
\* the received length.
\* ------------------------------------------------------------------------
ReportsLimitAndLength(r) ==
    /\ Done(r) /\ Status(r) = 400
    /\ {"limit", "received"} \subseteq DOMAIN Detail(r)
    /\ Detail(r).limit = MAX_TEXT_LENGTH
    /\ Detail(r).received = PyLen(request[r].text)

C8_TooLongReportsLimitAndLength ==
    \A r \in Reqs :
        (IsTts(r) /\ PastValidation(r)
                  /\ PyLen(request[r].text) > MAX_TEXT_LENGTH)
            => ReportsLimitAndLength(r)

\* C8 as amended: a POST /tts request whose text is not empty after
\* trimming and is longer than MAX_TEXT_LENGTH is rejected with a message
\* that reports the limit and the received length; a text that is empty
\* after trimming is rejected with the empty-text message, whatever its
\* length.
C8_NonBlankTooLongReportsLimitAndLength ==
    \A r \in Reqs :
        (IsTts(r) /\ PastValidation(r)) =>
            /\ (PyLen(PyStrip(request[r].text)) > 0
                    /\ PyLen(request[r].text) > MAX_TEXT_LENGTH)
                  => ReportsLimitAndLength(r)
            /\ PyLen(PyStrip(request[r].text)) = 0
                  => Rejected(r, "Le texte ne peut pas etre vide")

C8_Witness ==
    \E r \in Reqs :
        /\ IsTts(r)
        /\ request[r].text = Text(1, MAX_TEXT_LENGTH, 0)
        /\ ReportsLimitAndLength(r)
        /\ Detail(r).received = MAX_TEXT_LENGTH + 1

\* ------------------------------------------------------------------------
\* C9  When the drain of the Kokoro generator ends with no chunk,
\* generate_audio returns a failure ("no audio" if the generator was
\* exhausted) and has written no file; the /tts handler answers a failed
\* result with 500.
\* ------------------------------------------------------------------------
C9_NoChunkIsFailure ==
    [][ \A r \in Reqs :
          /\ (IsTts(r) /\ pc[r] = "draining" /\ audio_chunks[r] = <<>>
                       /\ pc'[r] # "draining") =>
                 /\ pc'[r] = "returned"
                 /\ ~ result'[r][1].success
                 /\ result'[r][1].error \in {Some(NoAudioError), Some(EngineError)}
                 /\ outputs' = outputs
          /\ (IsTts(r) /\ pc[r] = "returned" /\ pc'[r] = "done"
                       /\ result[r][1].error = Some(NoAudioError)) =>
                 /\ Status(r)' = 500
                 /\ outputs' = outputs ]_vars

C9_Witness ==
    \E r \in Reqs :
        /\ IsTts(r) /\ Done(r) /\ Status(r) = 500
        /\ result[r][1].error = Some(NoAudioError)
        /\ Detail(r).error = NoAudioError
        /\ outputs = NoFiles

\* ------------------------------------------------------------------------
\* C10  As claimed: when the text assembled from all segments (or from no
\* segment) is empty after trimming, transcribe_audio returns a failure,
\* the STT handler answers 500, and the temporary file has been removed.
\* ------------------------------------------------------------------------
EndsDrainWithoutSpeech(r) ==
    /\ IsStt(r) /\ pc[r] = "draining" /\ pc'[r] # "draining"
    /\ StrStrip(full_text[r]) = <<>>

RespondsToNoSpeech(r) ==
    /\ IsStt(r) /\ Responds(r)
    /\ result[r][1].error = Some(NoTextError)

C10_NoSpeechIsFailureAndFileRemoved ==
    [][ \A r \in Reqs :
          /\ EndsDrainWithoutSpeech(r) =>
                 /\ pc'[r] = "returned"
                 /\ ~ result'[r][1].success
          /\ RespondsToNoSpeech(r) =>
                 /\ Status(r)' = 500
                 /\ TempFile(r) \notin DOMAIN uploads' ]_vars

\* C10 as amended: ... transcribe_audio returns a failure, the STT handler
\* answers 500, and the temporary file has been removed unless os.remove
\* raised, which the handler has logged.
C10_NoSpeechIsFailureAndRemovalAttempted ==
    [][ \A r \in Reqs :
          /\ EndsDrainWithoutSpeech(r) =>
                 /\ pc'[r] = "returned"
                 /\ ~ result'[r][1].success
                 /\ result'[r][1].error \in {Some(NoTextError), Some(EngineError)}
          /\ RespondsToNoSpeech(r) =>
                 /\ Status(r)' = 500
                 /\ warned'[r] \/ TempFile(r) \notin DOMAIN uploads' ]_vars

C10_Witness ==
    \E r \in Reqs :
        /\ IsStt(r) /\ Done(r) /\ Status(r) = 500
        /\ Detail(r).error = NoTextError
        /\ ~ warned[r]
        /\ TempFile(r) \notin DOMAIN uploads

\* ------------------------------------------------------------------------
\* C11  Resolver: for each language L of {fr, en}, get_pipeline_and_voice
\* returns the pipeline of L with the default voice of L when the requested
\* voice is empty, and the pipeline of L with the requested voice unchanged
\* when it is not.
\* ------------------------------------------------------------------------
PipelineOf(language) == IF language = "fr" THEN "pipeline_fr" ELSE "pipeline_en"
DefaultVoiceOf(language) ==
    IF language = "fr" THEN DEFAULT_VOICE_FR ELSE DEFAULT_VOICE_EN

\* The synthesis of r has resolved its pipeline and has not returned.
InSynthesis(r) == IsTts(r) /\ pc[r] \in {"draining", "writing"}

C11_ResolverDefaultsAndKeepsVoice ==
    \A r \in Reqs :
        (InSynthesis(r) /\ request[r].language \in {"fr", "en"}) =>
            /\ pipeline[r] = PipelineOf(request[r].language)
            /\ request[r].voice = "" =>
                   selected_voice[r] = DefaultVoiceOf(request[r].language)
            /\ request[r].voice # "" =>
                   selected_voice[r] = request[r].voice

C11_Witness ==
    \E r \in Reqs :
        /\ InSynthesis(r)
        /\ request[r].language = "en" /\ request[r].voice = ""
        /\ pipeline[r] = "pipeline_en"
        /\ selected_voice[r] = DEFAULT_VOICE_EN

\* ------------------------------------------------------------------------
\* C12  As claimed: GET /audio/{filename} answers 404 iff no file of that
\* name exists in the output directory at the time of the request, else it
\* streams that file; the request creates, changes and deletes no file and
\* enters no adapter.
\* ------------------------------------------------------------------------
Downloads(r) == pc[r] = "idle" /\ pc'[r] = "done" /\ kind'[r] = "download"

C12_DownloadAnswersByExistence ==
    [][ \A r \in Reqs :
          Downloads(r) =>
              LET name == request'[r].filename
              IN  /\ (Status(r)' = 404) <=> name \notin DOMAIN outputs
                  /\ name \in DOMAIN outputs =>
                         response'[r] = Some(FileResponse(
                             path_join(TTS_OUTPUT_DIR, name), name, None))
                  /\ outputs' = outputs /\ uploads' = uploads
                  /\ calls' = calls /\ result' = result ]_vars

\* ------------------------------------------------------------------------
\* C13  As claimed: once a synthesis call has succeeded and returned the
\* filename f, no later step of the service deletes or changes that file,
\* and every later GET /audio/f is answered with that file.
\* ------------------------------------------------------------------------
Artifact(r) == result[r][1].filename[1]

C13_ArtifactsPersist ==
    [][ \A r \in Reqs :
          (IsTts(r) /\ Succeeded(r)) =>
              /\ Artifact(r) \in DOMAIN outputs'
              /\ Artifact(r) \in DOMAIN outputs
              /\ outputs'[Artifact(r)] = outputs[Artifact(r)]
              /\ \A q \in Reqs :
                    (Downloads(q) /\ request'[q].filename = Artifact(r)) =>
                        /\ Status(q)' = 200
                        /\ response'[q][1].path =
                               path_join(TTS_OUTPUT_DIR, Artifact(r)) ]_vars

\* ------------------------------------------------------------------------
\* C14  Liveness: when every engine call and every drain returns or raises,
\* every received request eventually gets its response; none stays in
\* validation or in inference for ever.
\* ------------------------------------------------------------------------
C14_EveryRequestIsAnswered ==
    \A r \in Reqs : (pc[r] # "idle") ~> (Done(r) /\ response[r] # None)

C14_Witness ==
    \E r1, r2 \in Reqs :
        /\ r1 < r2
        /\ IsStt(r1) /\ Done(r1) /\ calls[r1] = 1 /\ Status(r1) = 200
        /\ IsStt(r2) /\ Done(r2) /\ calls[r2] = 1 /\ Status(r2) = 500

\* ------------------------------------------------------------------------
\* C15  For every STT request the temporary file is written before
\* transcribe_audio is entered and removed only after it has returned: as
\* long as the request is between the write and the cleanup, in particular
\* inside transcribe_audio, its own file is on disk with its own bytes, also
\* when other STT requests are handled at the same time.
\* ------------------------------------------------------------------------
HoldsTempFile(r) == IsStt(r) /\ pc[r] \in {"written", "draining", "returned"}

C15_TempFileOnDiskDuringInference ==
    \A r \in Reqs :
        /\ (IsStt(r) /\ calls[r] > 0) => upload_filepath[r] # None
        /\ HoldsTempFile(r) =>
              /\ upload_filepath[r] # None
              /\ TempFile(r) \in DOMAIN uploads
              /\ uploads[TempFile(r)] = [size |-> request[r].file.size,
                                         audio |-> request[r].file.audio]

C15_Witness ==
    \E r1, r2 \in Reqs :
        /\ IsStt(r1) /\ pc[r1] = "draining"
        /\ TempFile(r1) \in DOMAIN uploads
        /\ IsStt(r2) /\ pc[r2] = "reading"

\* ------------------------------------------------------------------------
\* C16  As claimed: the temporary path of an STT request is made of a random
\* token and of nothing of the client-supplied filename, and no two STT
\* requests that are handled at the same time hold the same temporary path.
\* ------------------------------------------------------------------------
TokenOnlyNames ==
    { upload_filename(i, ".wav") : i \in Ids } \cup
    { record_filename(i) : i \in Ids }

NoSharedTempPath ==
    \A r, q \in Reqs :
        (r # q /\ HoldsTempFile(r) /\ HoldsTempFile(q)) =>
            TempFile(r) # TempFile(q)

C16_TempPathFromTokenOnly ==
    /\ \A r \in Reqs :
          (IsStt(r) /\ upload_filepath[r] # None) =>
              /\ upload_filepath[r][1][1] = STT_UPLOAD_DIR
              /\ TempFile(r) \in TokenOnlyNames
    /\ NoSharedTempPath

\* ------------------------------------------------------------------------
\* C17  As claimed: calls are serialized per handle; at no time are two
\* requests inside an inference call (the drain of its output included) on
\* the same handle (pipeline_fr, pipeline_en or stt_model).
\* ------------------------------------------------------------------------
InInference(r) == pc[r] = "draining" /\ pipeline[r] # "none"

C17_OneCallPerHandle ==
    \A r, q \in Reqs :
        (r # q /\ InInference(r) /\ InInference(q)) =>
            pipeline[r] # pipeline[q]

\* ------------------------------------------------------------------------
\* C18  A failed os.remove is never escalated: whether the removal succeeds
\* or raises, the STT handler answers with the response of the result of
\* transcribe_audio, the JSON body on success and 500 with the error of the
\* adapter on failure.
\* ------------------------------------------------------------------------
C18_RemoveFailureNotEscalated ==
    [][ \A r \in Reqs :
          (IsStt(r) /\ Responds(r)) =>
              LET res == result[r][1]
              IN  /\ res.success =>
                         /\ Status(r)' = 200
                         /\ response'[r][1].body.text = res.text[1]
                         /\ response'[r][1].body.language = res.language[1]
                         /\ response'[r][1].body.segments = res.segments
                  /\ ~ res.success =>
                         /\ Status(r)' = 500
                         /\ Detail(r)'.msg = "Erreur lors de la transcription"
                         /\ Detail(r)'.error = res.error[1] ]_vars

C18_Witness ==
    \E r1, r2 \in Reqs :
        /\ IsStt(r1) /\ Done(r1) /\ warned[r1] /\ Status(r1) = 200
        /\ TempFile(r1) \in DOMAIN uploads
        /\ IsStt(r2) /\ Done(r2) /\ warned[r2] /\ Status(r2) = 500
        /\ TempFile(r2) \in DOMAIN uploads

\* ------------------------------------------------------------------------
\* C19  As claimed: in every reachable state each file of the upload
\* directory belongs to an STT request that is between the write of its
\* temporary file and its cleanup; when no STT request is in flight the
\* directory is empty.
\* ------------------------------------------------------------------------
Owns(r, f) == IsStt(r) /\ upload_filepath[r] # None /\ TempFile(r) = f
SttInFlight(r) == IsStt(r) /\ ~ Done(r)

LeftBehind(r, f) == Owns(r, f) /\ Done(r) /\ warned[r]

TtsStep(r) == IsTts(r) /\ pc'[r] # pc[r]

C20_OneNewFilePerSuccess ==
    [][ \A r \in Reqs :
          /\ DOMAIN outputs \subseteq DOMAIN outputs'
          /\ (TtsStep(r) /\ pc[r] = "writing" /\ result'[r][1].success) =>
                LET f == result'[r][1].filename[1]
                IN  /\ f \notin DOMAIN outputs
                    /\ DOMAIN outputs' = DOMAIN outputs \cup {f}
                    /\ \A g \in DOMAIN outputs : outputs'[g] = outputs[g]
                    /\ f.prefix = "audio_" /\ f.id \in Ids
                    /\ f.ext = AUDIO_FORMAT
                    /\ result'[r][1].filepath =
                           Some(path_join(TTS_OUTPUT_DIR, f))
          /\ (TtsStep(r) /\ pc[r] \in {"received", "validated", "draining",
                                       "returned"}) =>
                outputs' = outputs ]_vars

\* ------------------------------------------------------------------------
\* C21  generate_audio drains the whole output of the engine before it
\* writes: no step of the drain touches the output directory, chunks are
\* taken only during the drain, and the buffer written on success is the
\* concatenation of all emitted chunks in the order of emission, for one
\* chunk and for more.
\* ------------------------------------------------------------------------
\* The samples of the chunks 1..n in the order of emission: the k-th chunk
\* contributes k samples of value k.
EmittedSamples(n) ==
    [p \in 1..((n * (n + 1)) \div 2) |->
        CHOOSE k \in 1..n : ((k - 1) * k) \div 2 < p /\ p <= (k * (k + 1)) \div 2]

C21_WholeSequenceThenWrite ==
    [][ \A r \in Reqs :
          IsTts(r) =>
              /\ (pc[r] = "draining" /\ ( \/ pc'[r] # pc[r]
                                          \/ audio_chunks'[r] # audio_chunks[r] ))
                    => outputs' = outputs
              /\ (pc[r] # "draining" /\ pc'[r] # "returned")
                    => audio_chunks'[r] = audio_chunks[r]
              /\ (pc[r] = "writing" /\ pc'[r] = "returned"
                                    /\ result'[r][1].success) =>
                    LET n == Len(audio_chunks[r])
                        f == result'[r][1].filename[1]
                    IN  /\ n >= 1
                        /\ \A i \in 1..n : audio_chunks[r][i] = Chunk(i)
                        /\ outputs'[f] = EmittedSamples(n) ]_vars

C21_Witness ==
    \E r \in Reqs :
        /\ IsTts(r) /\ Done(r) /\ Succeeded(r)
        /\ Artifact(r) \in DOMAIN outputs
        /\ outputs[Artifact(r)] = <<1, 2, 2>>

\* ------------------------------------------------------------------------
\* C22  On success transcribe_audio returns one entry per segment of the
\* engine, in the order of emission, and a text that is the concatenation
\* of the texts of the segments in that order, with no separator added,
\* trimmed at both ends.
\* ------------------------------------------------------------------------
\* The trimmed concatenation of the spoken segments 1..n, each " " and its
\* letter: the letters in order with the blank each segment brings between.
SpokenText(n) ==
    [p \in 1..(2 * n - 1) |->
        IF p % 2 = 1 THEN Letter((p + 1) \div 2) ELSE " "]

ReturnsTranscript(r) ==
    /\ IsStt(r) /\ pc[r] = "draining" /\ pc'[r] = "returned"
    /\ result'[r][1].success

C22_SegmentsAndTextInOrder ==
    [][ \A r \in Reqs :
          ReturnsTranscript(r) =>
              LET n == Len(segments_list[r])
                  res == result'[r][1]
              IN  /\ n >= 1
                  /\ segments[r] = Some("speech")
                  /\ Len(res.segments) = n
                  /\ \A i \in 1..n : res.segments[i].text = <<Letter(i)>>
                  /\ res.text = Some(SpokenText(n)) ]_vars

C22_Witness ==
    \E r \in Reqs :
        /\ IsStt(r) /\ Done(r) /\ Status(r) = 200
        /\ Len(response[r][1].body.segments) = 2
        /\ response[r][1].body.segments[2].text = <<"b">>
        /\ response[r][1].body.text = <<"a", " ", "b">>

\* ------------------------------------------------------------------------
\* C23  In both STT handlers the language "auto" (the default of the
\* parameter) reaches the engine as None, and every other language reaches
\* it unchanged, as the forced language.
\* ------------------------------------------------------------------------
C23_AutoIsNoneElseForced ==
    \A r \in Reqs :
        (IsStt(r) /\ calls[r] > 0) =>
            /\ request[r].language = "auto" => language_param[r] = None
            /\ request[r].language # "auto" =>
                  /\ language_param[r] = Some(request[r].language)
                  /\ info[r] # None =>
                         info[r][1].language = request[r].language
                  /\ Succeeded(r) =>
                         result[r][1].language = Some(request[r].language)

C23_Witness ==
    \E r \in Reqs :
        /\ kind[r] = "record" /\ pc[r] = "draining"
        /\ request[r].language = "auto"
        /\ language_param[r] = None
        /\ info[r][1].language = "en"

\* ------------------------------------------------------------------------
\* C24  get_pipeline_and_voice is total: for every language other than
\* "fr", unsupported codes included (generate_audio called without the
\* validation of the handler), it returns the English pipeline with the
\* requested voice, or DEFAULT_VOICE_EN when the voice is empty; a call of
\* generate_audio never goes on without a pipeline.
\* ------------------------------------------------------------------------
C24_ResolverTotalElseEnglish ==
    \A r \in Reqs :
        InSynthesis(r) =>
            /\ pipeline[r] \in {"pipeline_fr", "pipeline_en"}
            /\ request[r].language # "fr" =>
                  /\ pipeline[r] = "pipeline_en"
                  /\ selected_voice[r] =
                         IF request[r].voice = "" THEN DEFAULT_VOICE_EN
                         ELSE request[r].voice

C24_Witness ==
    \E r \in Reqs :
        /\ InSynthesis(r)
        /\ request[r].language = "de" /\ request[r].voice = ""
        /\ pipeline[r] = "pipeline_en"
        /\ selected_voice[r] = DEFAULT_VOICE_EN

\* ------------------------------------------------------------------------
\* C25  Text-length boundary of POST /tts: a non-blank text of exactly
\* MAX_TEXT_LENGTH characters in a supported language passes validation and
\* reaches generate_audio; a text of MAX_TEXT_LENGTH + 1 characters is
\* answered 400; the length compared is that of the untrimmed text.
\* ------------------------------------------------------------------------
ReachesGenerateAudio(r) ==
    \/ pc[r] = "validated"
    \/ calls[r] = 1

C25_TextLengthBoundary ==
    \A r \in Reqs :
        (IsTts(r) /\ PastValidation(r)) =>
            /\ ( /\ PyLen(request[r].text) = MAX_TEXT_LENGTH
                 /\ PyLen(PyStrip(request[r].text)) > 0
                 /\ request[r].language \in {"fr", "en"} )
                  => ReachesGenerateAudio(r)
            /\ PyLen(request[r].text) = MAX_TEXT_LENGTH + 1 =>
                  /\ Done(r) /\ Status(r) = 400
                  /\ calls[r] = 0
            /\ ( /\ PyLen(request[r].text) = MAX_TEXT_LENGTH + 1
                 /\ PyLen(PyStrip(request[r].text)) = MAX_TEXT_LENGTH )
                  => Rejected(r, "Le texte depasse la limite")

C25_Witness ==
    \E r \in Reqs :
        /\ IsTts(r) /\ pc[r] = "draining" /\ calls[r] = 1
        /\ request[r].text = Text(0, MAX_TEXT_LENGTH, 0)
        /\ request[r].language = "fr"

====
